---- MODULE Spec2Model ----
(***************************************************************************)
(* spendingTracker: the SQLite access layer (app/db.ts), the budget        *)
(* resolver with month fallback, the transactions-changed event bus        *)
(* (app/utils/transactions-events.ts), and the handlers and loads of       *)
(* TransactionForm, ExpensesScreen and BudgetScreen.                       *)
(*                                                                         *)
(* Text values (dates "YYYY-MM-DD", month keys "YYYY-MM") are sequences of *)
(* character codes, compared the way SQLite's BINARY collation compares    *)
(* TEXT: byte by byte, the shorter string first on a common prefix.        *)
(***************************************************************************)
EXTENDS Integers, Sequences, FiniteSets, Bags, TLC

VARIABLES
    transactions,   \* rows of table transactions: [id, amount, category, label, date]
    txSeq,          \* AUTOINCREMENT high-water mark of transactions.id
    txCall,         \* the most recent completed call on the transactions table, with its
                    \* arguments and its result
    issued,         \* every id that an INSERT has given to a transaction so far
    budgets,        \* rows of table budgets, a bag of [month, category, amount]
    lastWrite,      \* the most recent completed statement that wrote table budgets
    res,            \* the in-flight call of getMonthlyBudgetsWithFallbackStatus
    interfered,     \* a budgets write ran since that call started
    source,         \* per category resolved by that call, the row its amount was read from
    entries,        \* the listeners Set: its entry list, in insertion order
    emit,           \* the running emitTransactionsChanged: position in the entry list
    calls,          \* per listener, how often the current emit pass has invoked it
    atStart,        \* the listeners subscribed when the current emit pass started
    addedInPass,    \* the listeners subscribed from inside a callback of the current pass
    touched,        \* the listeners that a callback of the current pass subscribed, or
                    \* that the callback of another listener unsubscribed
    gone,           \* the listeners that unsubscribed themselves in their callback and
                    \* have not been subscribed since
    form,           \* TransactionForm: dbReady
    expenses,       \* ExpensesScreen: rows, selectedIds, editing, and the ids of a
                    \* handleDelete that has deleted and not yet reloaded
    uiCall,         \* the most recent handler run: the message it showed (error, success
                    \* or alert), whether it emitted, whether the id it addressed was stored
    focus,          \* the tab in focus
    selectedMonth,  \* BudgetScreen: the month picked
    loads,          \* the loads in flight: the screen that asked, the call that started
                    \* it, its active flag, the month it reads, and whether the screen
                    \* has since blurred or started a newer load
    shown,          \* per screen, the month of the data that the last applied load set
    lastApplied,    \* the load whose result was applied last
    budgetScreen    \* BudgetScreen: totals, budgets, exactBudgets, error, and its load in
                    \* flight with the totals rows already returned

vars == <<transactions, txSeq, txCall, issued, budgets, lastWrite, res, interfered, source,
          entries, emit, calls, atStart, addedInPass, touched, gone,
          form, expenses, uiCall, focus, selectedMonth, loads, shown, lastApplied,
          budgetScreen>>

txVars == <<transactions, txSeq, txCall, issued>>
budgetVars == <<budgets, lastWrite, res, interfered, source>>
busVars == <<entries, emit, calls, atStart, addedInPass, touched, gone>>
handlerVars == <<form, expenses, uiCall>>
loadVars == <<focus, selectedMonth, loads, shown, lastApplied>>
uiVars == <<handlerVars, loadVars, budgetScreen>>

\* null, as a text value and as the absence of a row
NULL == "null"
NoRow == [month |-> <<>>, category |-> NULL, amount |-> -1]

-----------------------------------------------------------------------------
(* Text: character codes, String(n), padStart(2, '0'), byte-wise comparison *)

Dash == <<45>>

RECURSIVE Digits(_)
Digits(n) == IF n < 10 THEN <<48 + n>> ELSE Digits(n \div 10) \o <<48 + (n % 10)>>

padStart2(s) == IF Len(s) < 2 THEN <<48>> \o s ELSE s

RECURSIVE StrLess(_, _)
StrLess(a, b) ==
    IF b = <<>> THEN FALSE
    ELSE IF a = <<>> THEN TRUE
    ELSE IF Head(a) = Head(b) THEN StrLess(Tail(a), Tail(b))
    ELSE Head(a) < Head(b)

StrLeq(a, b) == a = b \/ StrLess(a, b)

\* a JS Date is modelled by its local fields <<year, monthIndex (0..11), day>>
formatMonthKey(date) == Digits(date[1]) \o Dash \o padStart2(Digits(date[2] + 1))

formatDate(value) ==
    Digits(value[1]) \o Dash \o padStart2(Digits(value[2] + 1)) \o Dash \o padStart2(Digits(value[3]))

\* the days of a month of the calendar a Date follows
DaysIn(year, monthIndex) ==
    IF monthIndex = 1
    THEN IF year % 4 = 0 /\ (year % 100 # 0 \/ year % 400 = 0) THEN 29 ELSE 28
    ELSE IF monthIndex \in {3, 5, 8, 10} THEN 30 ELSE 31

\* the calendar day before <<year, monthIndex, day>>
PreviousDay(value) ==
    IF value[3] > 1 THEN <<value[1], value[2], value[3] - 1>>
    ELSE IF value[2] > 0 THEN <<value[1], value[2] - 1, DaysIn(value[1], value[2] - 1)>>
    ELSE <<value[1] - 1, 11, 31>>

-----------------------------------------------------------------------------
(* Inputs *)

CategoryInputs == {"fun", "groceries"}

\* the months a caller passes, as Date fields <<year, monthIndex>>
MonthInputs == {<<2023, 11>>, <<2024, 0>>, <<2024, 5>>}
MonthKeys == {formatMonthKey(m) : m \in MonthInputs}

BudgetAmounts == {0, 50}

\* the dates a caller passes, as Date fields <<year, monthIndex, day>>
DateInputs == {<<2023, 11, 31>>, <<2024, 0, 1>>, <<2024, 0, 15>>, <<2024, 1, 1>>}
DateTexts == {formatDate(d) : d \in DateInputs}

TxAmounts == {5, 7}
LabelInputs == {NULL}

\* <<amount, category, label, date>>
TxSamples ==
    { <<5, "fun", NULL, <<2024, 0, 1>>>>,
      <<7, "fun", "lunch", <<2024, 1, 1>>>>,
      <<7, "groceries", NULL, <<2024, 0, 15>>>>,
      <<5, "groceries", "lunch", <<2023, 11, 31>>>> }

\* ids are handed out up to MaxTxId
MaxTxId == 2

Listeners == {"a", "b", "c"}

\* a listener callback makes at most MaxCallbackOps subscribe/unsubscribe calls
MaxCallbackOps == 2

\* the entry list of the listeners Set grows to at most MaxEntries during one pass
MaxEntries == 4

\* the category lists handed to the resolver
CategoryLists == {<<c>> : c \in CategoryInputs} \cup {<<"fun", "groceries">>}

-----------------------------------------------------------------------------
(* Table transactions *)

TxRow(id, amount, category, label, date) ==
    [id |-> id, amount |-> amount, category |-> category, label |-> label, date |-> date]

RECURSIVE SumAmount(_)
SumAmount(rows) ==
    IF rows = {} THEN 0
    ELSE LET r == CHOOSE x \in rows : TRUE IN r.amount + SumAmount(rows \ {r})

\* the totals query with date <= ? as its upper bound
TotalsThroughEnd(t, monthStart, monthEnd) ==
    LET hit == {r \in t : StrLeq(monthStart, r.date) /\ StrLeq(r.date, monthEnd)}
    IN  {[category |-> c, total |-> SumAmount({r \in hit : r.category = c})] :
           c \in {r.category : r \in hit}}

\* SELECT category, SUM(amount) as total FROM transactions
\* WHERE date >= ? AND date < ? GROUP BY category
TotalsRows(t, monthStart, monthEnd) ==
    LET hit == {r \in t : StrLeq(monthStart, r.date) /\ StrLess(r.date, monthEnd)}
    IN  {[category |-> c, total |-> SumAmount({r \in hit : r.category = c})] :
           c \in {r.category : r \in hit}}

NoArgs == TxRow(0, 0, NULL, NULL, <<>>)

\* a read of the table: its bounds and the rows it returned
TxCall(op, monthStart, monthEnd, rows) ==
    [op |-> op, monthStart |-> monthStart, monthEnd |-> monthEnd, rows |-> rows,
     ids |-> {}, args |-> NoArgs, list |-> <<>>]

\* a write of the table: the ids it addressed and the values it was given
TxWrite(op, ids, args) ==
    [TxCall(op, <<>>, <<>>, {}) EXCEPT !.ids = ids, !.args = args]

MaxId(t) == IF t = {} THEN 0 ELSE CHOOSE i \in {r.id : r \in t} : \A r \in t : r.id <= i

\* a rowid column without AUTOINCREMENT: one more than the largest id stored
RowidNext(t, seq) == MaxId(t) + 1

\* id INTEGER PRIMARY KEY AUTOINCREMENT: one more than the largest id ever given
AutoincrementNext(t, seq) == IF MaxId(t) > seq THEN MaxId(t) + 1 ELSE seq + 1

\* INSERT INTO transactions (amount, category, label, date) VALUES (?, ?, ?, ?)
InsertTx(amount, category, label, date) ==
    LET id == AutoincrementNext(transactions, txSeq) IN
    /\ txSeq < MaxTxId
    /\ transactions' = transactions \cup {TxRow(id, amount, category, label, date)}
    /\ txSeq' = id
    /\ issued' = issued \cup {id}
    /\ txCall' = TxWrite("insertTransaction", {id}, TxRow(id, amount, category, label, date))

insertTransaction(amount, category, label, date) ==
    /\ InsertTx(amount, category, label, date)
    /\ UNCHANGED <<budgetVars, busVars, uiVars>>

\* UPDATE transactions SET amount = ?, category = ?, label = ?, date = ? WHERE id = ?
UpdateRows(t, id, amount, category, label, date) ==
    {IF r.id = id THEN TxRow(id, amount, category, label, date) ELSE r : r \in t}

UpdateTx(id, amount, category, label, date) ==
    /\ transactions' = UpdateRows(transactions, id, amount, category, label, date)
    /\ txCall' = TxWrite("updateTransaction", {id}, TxRow(id, amount, category, label, date))
    /\ UNCHANGED <<txSeq, issued>>

updateTransaction(id, amount, category, label, date) ==
    /\ UpdateTx(id, amount, category, label, date)
    /\ UNCHANGED <<budgetVars, busVars, uiVars>>

\* a DELETE that removes nothing unless every id matches a row
DeleteIfAllMatch(t, ids) ==
    IF ids \subseteq {r.id : r \in t} THEN {r \in t : r.id \notin ids} ELSE t

\* if (ids.length === 0) return; DELETE FROM transactions WHERE id IN (...)
DeleteRowsById(t, ids) ==
    IF ids = {} THEN t ELSE {r \in t : r.id \notin ids}

DeleteTx(ids) ==
    /\ transactions' = DeleteRowsById(transactions, ids)
    /\ txCall' = TxWrite("deleteTransactions", ids, NoArgs)
    /\ UNCHANGED <<txSeq, issued>>

deleteTransactions(ids) ==
    /\ DeleteTx(ids)
    /\ UNCHANGED <<budgetVars, busVars, uiVars>>

getMonthlyCategoryTotals(monthStart, monthEnd) ==
    /\ txCall' = TxCall("getMonthlyCategoryTotals", monthStart, monthEnd,
                        TotalsRows(transactions, monthStart, monthEnd))
    /\ UNCHANGED <<transactions, txSeq, issued, budgetVars, busVars, uiVars>>

\* ORDER BY date DESC, id DESC, as the month listing orders
RECURSIVE OrderByDateDescIdDesc(_)
OrderByDateDescIdDesc(t) ==
    IF t = {} THEN <<>>
    ELSE LET first == CHOOSE r \in t : \A x \in t :
                         \/ StrLess(x.date, r.date)
                         \/ x.date = r.date /\ x.id <= r.id
         IN  <<first>> \o OrderByDateDescIdDesc(t \ {first})

\* SELECT * FROM transactions ORDER BY id DESC
RECURSIVE OrderByIdDesc(_)
OrderByIdDesc(t) ==
    IF t = {} THEN <<>>
    ELSE LET first == CHOOSE r \in t : \A x \in t : x.id <= r.id
         IN  <<first>> \o OrderByIdDesc(t \ {first})

getTransactions ==
    /\ txCall' = [TxCall("getTransactions", <<>>, <<>>, {}) EXCEPT
                     !.list = OrderByIdDesc(transactions)]
    /\ UNCHANGED <<transactions, txSeq, issued, budgetVars, busVars, uiVars>>

NextTx ==
    \/ \E amount \in TxAmounts, category \in CategoryInputs, label \in LabelInputs,
          date \in DateTexts :
          insertTransaction(amount, category, label, date)
    \/ \E id \in 1..MaxTxId, amount \in TxAmounts, category \in CategoryInputs,
          label \in LabelInputs, date \in DateTexts :
          updateTransaction(id, amount, category, label, date)
    \/ \E ids \in SUBSET (1..MaxTxId) : deleteTransactions(ids)
    \/ \E monthStart \in DateTexts, monthEnd \in DateTexts :
          StrLess(monthStart, monthEnd) /\ getMonthlyCategoryTotals(monthStart, monthEnd)

\* the same calls and the listing, over a few sample transactions that differ in
\* every column
NextTxIds ==
    \/ \E v \in TxSamples : insertTransaction(v[1], v[2], v[3], formatDate(v[4]))
    \/ \E id \in 1..MaxTxId, v \in TxSamples :
          updateTransaction(id, v[1], v[2], v[3], formatDate(v[4]))
    \/ \E ids \in SUBSET (1..(MaxTxId + 1)) : deleteTransactions(ids)
    \/ \E monthStart \in DateTexts, monthEnd \in DateTexts :
          StrLess(monthStart, monthEnd) /\ getMonthlyCategoryTotals(monthStart, monthEnd)
    \/ getTransactions

-----------------------------------------------------------------------------
(* Table budgets *)

BudgetRow(month, category, amount) ==
    [month |-> month, category |-> category, amount |-> amount]

RowsAt(b, month, category) ==
    {r \in BagToSet(b) : r.month = month /\ r.category = category}

\* the same statement without its ON CONFLICT clause and without the unique index
InsertOnly(b, month, category, amount) ==
    b (+) SetToBag({BudgetRow(month, category, amount)})

\* the same statement with ON CONFLICT(month, category) DO NOTHING
InsertOrIgnore(b, month, category, amount) ==
    IF RowsAt(b, month, category) = {}
    THEN b (+) SetToBag({BudgetRow(month, category, amount)})
    ELSE b

\* INSERT ... ON CONFLICT(month, category) DO UPDATE SET amount = excluded.amount
UpsertRows(b, month, category, amount) ==
    LET hit == RowsAt(b, month, category)
        keep == BagToSet(b) \ hit
        rest == [r \in keep |-> b[r]]
    IN  IF hit = {}
        THEN b (+) SetToBag({BudgetRow(month, category, amount)})
        ELSE rest (+) SetToBag({BudgetRow(month, category, amount)})

\* a DELETE that matches on the month only
DeleteWholeMonth(b, month, category) ==
    LET keep == {r \in BagToSet(b) : r.month # month}
    IN  [r \in keep |-> b[r]]

\* DELETE FROM budgets WHERE month = ? AND category = ?
DeleteRows(b, month, category) ==
    LET keep == BagToSet(b) \ RowsAt(b, month, category)
    IN  [r \in keep |-> b[r]]

-----------------------------------------------------------------------------
(* getFirstAsync: the first row of a result set, or null when it is empty. *)
(* Without ORDER BY, and among rows that tie on the ORDER BY key, SQLite   *)
(* may return any of them.                                                 *)

getFirstAsync(rows) == IF rows = {} THEN {NoRow} ELSE rows

\* the exact-month query with the fallback query's condition month <= ?
ExactUpTo(b, category, month) ==
    {r \in BagToSet(b) : r.category = category /\ StrLeq(r.month, month)}

\* SELECT amount FROM budgets WHERE category = ? AND month = ? LIMIT 1
ExactRows(b, category, month) == RowsAt(b, month, category)

\* the fallback query with ORDER BY month ASC
OldestUpTo(b, category, month) ==
    LET upTo == {r \in BagToSet(b) : r.category = category /\ StrLeq(r.month, month)}
    IN  {r \in upTo : \A s \in upTo : StrLeq(r.month, s.month)}

\* the fallback query without its month <= ? condition
LatestAnyMonth(b, category, month) ==
    LET all == {r \in BagToSet(b) : r.category = category}
    IN  {r \in all : \A s \in all : StrLeq(s.month, r.month)}

\* the fallback query with month < ? in place of month <= ?
StrictlyEarlierRows(b, category, month) ==
    LET before == {r \in BagToSet(b) : r.category = category /\ StrLess(r.month, month)}
    IN  {r \in before : \A s \in before : StrLeq(s.month, r.month)}

\* SELECT amount FROM budgets WHERE category = ? AND month <= ? ORDER BY month DESC LIMIT 1
FallbackRows(b, category, month) ==
    LET upTo == {r \in BagToSet(b) : r.category = category /\ StrLeq(r.month, month)}
    IN  {r \in upTo : \A s \in upTo : StrLeq(s.month, r.month)}

-----------------------------------------------------------------------------
(* Budget mutator *)

\* lastWrite.before: the amounts the rows of the key held when the statement ran
NoWrite == [op |-> "none", month |-> <<>>, category |-> NULL, amount |-> 0, before |-> {}]

Idle == [pc |-> "idle", month |-> <<>>, categories |-> <<>>, i |-> 0,
         amounts |-> <<>>, exact |-> <<>>]

upsertBudget(month, category, amount) ==
    /\ budgets' = UpsertRows(budgets, month, category, amount)
    /\ lastWrite' = [op |-> "upsertBudget", month |-> month, category |-> category,
                     amount |-> amount,
                     before |-> {r.amount : r \in RowsAt(budgets, month, category)}]
    /\ interfered' = (res.pc # "idle")
    /\ UNCHANGED <<res, source, txVars, busVars, uiVars>>

deleteBudgetForMonth(month, category) ==
    /\ budgets' = DeleteRows(budgets, month, category)
    /\ lastWrite' = [op |-> "deleteBudgetForMonth", month |-> month, category |-> category,
                     amount |-> 0,
                     before |-> {r.amount : r \in RowsAt(budgets, month, category)}]
    /\ interfered' = (res.pc # "idle")
    /\ UNCHANGED <<res, source, txVars, busVars, uiVars>>

-----------------------------------------------------------------------------
(* Budget resolver: getMonthlyBudgetsWithFallbackStatus, one step per await *)

\* the loop moves on to the next category, or leaves the loop
Advance(r) ==
    IF r.i = Len(r.categories)
    THEN [r EXCEPT !.pc = "done"]
    ELSE [r EXCEPT !.pc = "exact", !.i = r.i + 1]

\* const db = await getDb(); amounts = {}; exact = {}
Started(month, categories) ==
    [pc |-> "exact", month |-> month, categories |-> categories, i |-> 1,
     amounts |-> <<>>, exact |-> <<>>]

ResolveCall(month, categories) ==
    /\ res.pc = "idle"
    /\ res' = Started(month, categories)
    /\ interfered' = FALSE
    /\ source' = <<>>
    /\ UNCHANGED <<budgets, lastWrite, txVars, busVars, uiVars>>

\* exactRow = await getFirstAsync(...); exact[category] = !!exactRow;
\* if (exactRow) { amounts[category] = exactRow.amount ?? 0; continue; }
ResolveExact ==
    /\ res.pc = "exact"
    /\ LET category == res.categories[res.i] IN
       \E exactRow \in getFirstAsync(ExactRows(budgets, category, res.month)) :
          LET seen == [res EXCEPT !.exact = (category :> (exactRow # NoRow)) @@ res.exact] IN
          /\ res' = IF exactRow # NoRow
                    THEN Advance([seen EXCEPT !.amounts =
                                     (category :> exactRow.amount) @@ res.amounts])
                    ELSE [seen EXCEPT !.pc = "fallback"]
          /\ source' = IF exactRow # NoRow THEN (category :> exactRow) @@ source
                        ELSE source
    /\ UNCHANGED <<budgets, lastWrite, interfered, txVars, busVars, uiVars>>

\* fallbackRow = await getFirstAsync(...); amounts[category] = fallbackRow?.amount ?? 0;
ResolveFallback ==
    /\ res.pc = "fallback"
    /\ LET category == res.categories[res.i] IN
       \E fallbackRow \in getFirstAsync(FallbackRows(budgets, category, res.month)) :
          LET amount == IF fallbackRow = NoRow THEN 0 ELSE fallbackRow.amount IN
          /\ res' = Advance([res EXCEPT !.amounts = (category :> amount) @@ res.amounts])
          /\ source' = (category :> fallbackRow) @@ source
    /\ UNCHANGED <<budgets, lastWrite, interfered, txVars, busVars, uiVars>>

\* return { amounts, exact }: the promise settles and the caller takes the result
ResolveReturn ==
    /\ res.pc = "done"
    /\ res' = Idle
    /\ interfered' = FALSE
    /\ source' = <<>>
    /\ UNCHANGED <<budgets, lastWrite, txVars, busVars, uiVars>>

\* what one pass of the loop body of getMonthlyBudgetsWithFallbackStatus leaves in
\* amounts[category] and exact[category] when table budgets holds b throughout
ResolutionOf(b, month, category) ==
    LET exactRows == ExactRows(b, category, month) IN
    IF exactRows # {}
    THEN {[amount |-> exactRow.amount, exact |-> TRUE] : exactRow \in exactRows}
    ELSE {[amount |-> IF fallbackRow = NoRow THEN 0 ELSE fallbackRow.amount,
           exact |-> FALSE] :
             fallbackRow \in getFirstAsync(FallbackRows(b, category, month))}

\* getMonthlyBudgetsWithFallback: what its single lookup leaves in results[category]
getMonthlyBudgetsWithFallback(b, month, category) ==
    {IF row = NoRow THEN 0 ELSE row.amount :
        row \in getFirstAsync(FallbackRows(b, category, month))}

\* the mark of a lookup that rejected
Threw == [month |-> <<>>, category |-> NULL, amount |-> -2]

\* a try / catch around the lookups of one category that reports 0 and goes on
CatchAndGoOn(r) ==
    LET category == r.categories[r.i] IN
    Advance([r EXCEPT !.amounts = (category :> 0) @@ r.amounts,
                      !.exact = (category :> FALSE) @@ r.exact])

\* the await of a lookup throws inside the loop: nothing catches it, the call rejects
\* and its amounts and exact maps are lost with it
ThrowFrom(r) == [r EXCEPT !.pc = "failed", !.amounts = <<>>, !.exact = <<>>]

ResolveThrow ==
    /\ res.pc \in {"exact", "fallback"}
    /\ res' = ThrowFrom(res)
    /\ source' = (res.categories[res.i] :> Threw) @@ source
    /\ UNCHANGED <<budgets, lastWrite, interfered, txVars, busVars, uiVars>>

\* the months written and resolved by the interleaved calls
RaceMonthKeys == {formatMonthKey(<<2023, 11>>), formatMonthKey(<<2024, 0>>)}

\* the budget calls in any interleaving of their statements
NextBudgetRace ==
    \/ \E month \in RaceMonthKeys, category \in CategoryInputs, amount \in BudgetAmounts :
          upsertBudget(month, category, amount)
    \/ \E month \in RaceMonthKeys, category \in CategoryInputs :
          deleteBudgetForMonth(month, category)
    \/ \E month \in RaceMonthKeys, categories \in CategoryLists :
          ResolveCall(month, categories)
    \/ ResolveExact
    \/ ResolveFallback
    \/ ResolveReturn

\* the budget calls with every resolution awaited before the next write is issued
NextBudget ==
    \/ \E month \in MonthKeys, category \in CategoryInputs, amount \in BudgetAmounts :
          res.pc = "idle" /\ upsertBudget(month, category, amount)
    \/ \E month \in MonthKeys, category \in CategoryInputs :
          res.pc = "idle" /\ deleteBudgetForMonth(month, category)
    \/ \E month \in MonthKeys, categories \in CategoryLists :
          ResolveCall(month, categories)
    \/ ResolveExact
    \/ ResolveFallback
    \/ ResolveReturn

-----------------------------------------------------------------------------
(* Event bus: const listeners = new Set<Listener>().                       *)
(* A Set keeps its entries in insertion order.  add appends a value that   *)
(* is not present; delete empties the value's entry; forEach walks the     *)
(* entry list by position and re-reads its length at every step, so it     *)
(* skips entries emptied before it reaches them and visits entries         *)
(* appended while it runs.  Emptied entries are dropped when no forEach is *)
(* running.                                                                *)

Empty == "<empty>"

Members(e) == {e[i] : i \in 1..Len(e)} \ {Empty}

Compact(e) == SelectSeq(e, LAMBDA x : x # Empty)

\* listeners.add(listener)
SetAdd(e, listener) == IF listener \in Members(e) THEN e ELSE Append(e, listener)

\* a delete that closes the gap in the entry list at once
SetDeleteShift(e, listener) == SelectSeq(e, LAMBDA x : x # listener)

\* listeners.delete(listener)
SetDelete(e, listener) == [i \in 1..Len(e) |-> IF e[i] = listener THEN Empty ELSE e[i]]

BusOps == [kind : {"subscribe", "unsubscribe"}, listener : Listeners]

RECURSIVE SeqsUpTo(_, _)
SeqsUpTo(S, n) ==
    IF n = 0 THEN {<<>>}
    ELSE LET shorter == SeqsUpTo(S, n - 1)
         IN  shorter \cup {Append(q, x) : q \in shorter, x \in S}

\* the calls a callback makes, run in order on the entry list; added collects the
\* listeners these calls put into the Set
RECURSIVE RunCallback(_, _, _)
RunCallback(ops, e, added) ==
    IF ops = <<>> THEN [entries |-> e, added |-> added]
    ELSE LET op == Head(ops) IN
         IF op.kind = "subscribe"
         THEN RunCallback(Tail(ops), SetAdd(e, op.listener),
                          IF op.listener \in Members(e) THEN added
                          ELSE added \cup {op.listener})
         ELSE RunCallback(Tail(ops), SetDelete(e, op.listener), added)

NoCalls == [l \in Listeners |-> 0]

\* the calls of the callback of listener self, as they change gone
RECURSIVE GoneAfter(_, _, _)
GoneAfter(ops, self, g) ==
    IF ops = <<>> THEN g
    ELSE LET op == Head(ops) IN
         GoneAfter(Tail(ops), self,
                   IF op.kind = "subscribe" THEN g \ {op.listener}
                   ELSE IF op.listener = self THEN g \cup {self}
                   ELSE g)

OwnUnsubscribe(self) == [kind |-> "unsubscribe", listener |-> self]

\* subscribeTransactionsChanged(listener), called outside an emit pass
subscribeTransactionsChanged(listener) ==
    /\ emit.pc # "running"
    /\ entries' = SetAdd(entries, listener)
    /\ gone' = gone \ {listener}
    /\ UNCHANGED <<emit, calls, atStart, addedInPass, touched, txVars, budgetVars, uiVars>>

\* the function subscribeTransactionsChanged returned, called outside an emit pass
unsubscribe(listener) ==
    /\ emit.pc # "running"
    /\ entries' = Compact(SetDelete(entries, listener))
    /\ UNCHANGED <<emit, calls, atStart, addedInPass, touched, gone, txVars, budgetVars, uiVars>>

\* emitTransactionsChanged() is called: listeners.forEach starts at the first entry
EmitCall ==
    /\ emit.pc # "running"
    /\ emit' = [pc |-> "running", index |-> 1]
    /\ calls' = NoCalls
    /\ atStart' = Members(entries)
    /\ addedInPass' = {}
    /\ touched' = {}
    /\ UNCHANGED <<entries, gone, txVars, budgetVars, uiVars>>

\* forEach reaches the next entry: an emptied entry is skipped, a listener is called
\* and its callback runs to completion
EmitVisit ==
    /\ emit.pc = "running"
    /\ emit.index <= Len(entries)
    /\ emit' = [emit EXCEPT !.index = emit.index + 1]
    /\ LET listener == entries[emit.index] IN
       IF listener = Empty
       THEN UNCHANGED <<entries, calls, addedInPass, touched, gone>>
       ELSE \E ops \in SeqsUpTo(BusOps, MaxCallbackOps) :
               LET ran == RunCallback(ops, entries, addedInPass) IN
               /\ Len(ran.entries) <= MaxEntries
               /\ entries' = ran.entries
               /\ addedInPass' = ran.added
               /\ calls' = [calls EXCEPT ![listener] = calls[listener] + 1]
               /\ touched' = touched \cup {ops[k].listener : k \in
                                   {j \in 1..Len(ops) : ops[j] # OwnUnsubscribe(listener)}}
               /\ gone' = GoneAfter(ops, listener, gone)
    /\ UNCHANGED <<atStart, txVars, budgetVars, uiVars>>

\* forEach is past the last entry: emitTransactionsChanged returns
EmitReturn ==
    /\ emit.pc = "running"
    /\ emit.index > Len(entries)
    /\ emit' = [pc |-> "returned", index |-> 0]
    /\ entries' = Compact(entries)
    /\ UNCHANGED <<calls, atStart, addedInPass, touched, gone, txVars, budgetVars, uiVars>>

NextBus ==
    \/ \E listener \in Listeners : subscribeTransactionsChanged(listener)
    \/ \E listener \in Listeners : unsubscribe(listener)
    \/ EmitCall
    \/ EmitVisit
    \/ EmitReturn

-----------------------------------------------------------------------------

-----------------------------------------------------------------------------
(* TransactionForm and ExpensesScreen: the handlers that write transactions. *)
(* Amounts typed into a field are text; a stored amount counts tenths.       *)

categories == <<"fun", "groceries", "boucherie">>

Includes(list, x) == \E k \in 1..Len(list) : list[k] = x

InfinityText == <<73, 110, 102, 105, 110, 105, 116, 121>>

\* an Invalid Date, whose getTime() is NaN
InvalidDate == <<>>

\* "", "abc", "5", "0,5", "-5", "0", "Infinity"
AmountTexts ==
    {<<>>, <<97, 98, 99>>, <<53>>, <<48, 44, 53>>, <<45, 53>>, <<48>>, InfinityText}

UiCategoryInputs == {"fun", "rent"}
UiLabelInputs == {" lunch "}
UiDateInputs == {<<2024, 0, 15>>, InvalidDate}

\* String.prototype.replace(',', '.'): the first comma becomes a dot
RECURSIVE replaceComma(_)
replaceComma(s) ==
    IF s = <<>> THEN <<>>
    ELSE IF Head(s) = 44 THEN <<46>> \o Tail(s)
    ELSE <<Head(s)>> \o replaceComma(Tail(s))

\* String.prototype.trim on the label texts
trim(label) ==
    CASE label = "  " -> ""
      [] label = " lunch " -> "lunch"
      [] OTHER -> label

NaN == [kind |-> "NaN", tenths |-> 0]

RECURSIVE DigitsValue(_)
DigitsValue(s) ==
    IF s = <<>> THEN 0 ELSE DigitsValue(SubSeq(s, 1, Len(s) - 1)) * 10 + (s[Len(s)] - 48)

\* an unsigned decimal literal or Infinity; one fraction digit is kept
UnsignedNumber(s) ==
    LET dots == {k \in 1..Len(s) : s[k] = 46} IN
    IF s = InfinityText THEN [kind |-> "Infinity", tenths |-> 1]
    ELSE IF \E k \in 1..Len(s) : s[k] \notin (48..57) \cup {46} THEN NaN
    ELSE IF Cardinality(dots) > 1 THEN NaN
    ELSE LET p == IF dots = {} THEN Len(s) + 1 ELSE CHOOSE k \in dots : TRUE
             int == SubSeq(s, 1, p - 1)
             frac == SubSeq(s, p + 1, Len(s))
         IN  IF int = <<>> /\ frac = <<>> THEN NaN
             ELSE [kind |-> "finite",
                   tenths |-> DigitsValue(int) * 10 + IF frac = <<>> THEN 0 ELSE frac[1] - 48]

\* Number(text): the empty text is 0, a sign may lead, anything else is NaN
Number(s) ==
    IF s = <<>> THEN [kind |-> "finite", tenths |-> 0]
    ELSE IF Head(s) = 45 THEN LET n == UnsignedNumber(Tail(s)) IN [n EXCEPT !.tenths = -n.tenths]
    ELSE IF Head(s) = 43 THEN UnsignedNumber(Tail(s))
    ELSE UnsignedNumber(s)

isFinite(n) == n.kind = "finite"

\* the check of the budget field, which admits 0
NegativeRejected(parsedAmount) == ~isFinite(parsedAmount) \/ parsedAmount.tenths < 0

\* !Number.isFinite(parsedAmount) || parsedAmount <= 0
AmountRejected(parsedAmount) == ~isFinite(parsedAmount) \/ parsedAmount.tenths <= 0

UiCall(handler, outcome, emitted, found) ==
    [handler |-> handler, outcome |-> outcome, emitted |-> emitted, found |-> found]

\* useEffect: initDb().then(() => setDbReady(true))
formInitDb ==
    /\ ~form.dbReady
    /\ form' = [form EXCEPT !.dbReady = TRUE]
    /\ UNCHANGED <<expenses, uiCall, txVars, budgetVars, busVars, loadVars, budgetScreen>>

\* TransactionForm.handleSubmit; no component subscribes to the bus, so the emit
\* walks an empty Set
handleSubmit(amount, category, label, transactionDate) ==
    LET parsedAmount == Number(replaceComma(amount))
        trimmedLabel == trim(label)
        Reject(message) ==
            /\ uiCall' = UiCall("handleSubmit", message, FALSE, TRUE)
            /\ UNCHANGED txVars
    IN
    /\ IF AmountRejected(parsedAmount)
       THEN Reject("Amount must be a number greater than 0.")
       ELSE IF ~Includes(categories, category)
       THEN Reject("Category must be selected from the list.")
       ELSE IF transactionDate = InvalidDate
       THEN Reject("Transaction date is required.")
       ELSE IF ~form.dbReady
       THEN Reject("Database is not ready.")
       ELSE /\ InsertTx(parsedAmount.tenths, category,
                        IF trimmedLabel = "" THEN NULL ELSE trimmedLabel,
                        formatDate(transactionDate))
            /\ uiCall' = UiCall("handleSubmit", "Saved.", TRUE, TRUE)
    /\ UNCHANGED <<form, expenses, budgetVars, busVars, loadVars, budgetScreen>>

\* useFocusEffect of ExpensesScreen: getTransactions, then setRows
expensesFocus ==
    /\ expenses' = [expenses EXCEPT !.rows = OrderByIdDesc(transactions)]
    /\ UNCHANGED <<form, uiCall, txVars, budgetVars, busVars, loadVars, budgetScreen>>

toggleSelection(id) ==
    /\ \E k \in 1..Len(expenses.rows) : expenses.rows[k].id = id
    /\ expenses' = [expenses EXCEPT !.selectedIds =
                       IF id \in @ THEN @ \ {id} ELSE @ \cup {id}]
    /\ UNCHANGED <<form, uiCall, txVars, budgetVars, busVars, loadVars, budgetScreen>>

\* handleDelete up to the return of await deleteTransactions(ids)
handleDeleteStart ==
    /\ expenses.selectedIds # {}
    /\ expenses.deleting = {}
    /\ DeleteTx(expenses.selectedIds)
    /\ expenses' = [expenses EXCEPT !.deleting = expenses.selectedIds]
    /\ UNCHANGED <<form, uiCall, budgetVars, busVars, loadVars, budgetScreen>>

\* handleDelete from await reloadTransactions() on
handleDeleteFinish ==
    /\ expenses.deleting # {}
    /\ expenses' = [expenses EXCEPT !.rows = OrderByIdDesc(transactions),
                                    !.selectedIds = {}, !.deleting = {}]
    /\ uiCall' = UiCall("handleDelete", "Deleted", FALSE, TRUE)
    /\ UNCHANGED <<form, txVars, budgetVars, busVars, loadVars, budgetScreen>>

\* the Date a date-only text "YYYY-MM-DD" denotes: midnight UTC of that day, kept as
\* its UTC fields <<year, monthIndex, day>>
ParseDate(text) ==
    <<DigitsValue(SubSeq(text, 1, 4)), DigitsValue(SubSeq(text, 6, 7)) - 1,
      DigitsValue(SubSeq(text, 9, 10))>>

\* getFullYear(), getMonth(), getDate() of a midnight UTC in a zone offset minutes
\* east of Greenwich, from -12 h to +14 h: west of Greenwich it is the evening before
LocalFields(utcMidnight, offset) ==
    IF offset < 0 THEN PreviousDay(utcMidnight) ELSE utcMidnight

\* the zones of the device, in minutes east of Greenwich: New York (winter), UTC, Paris
TimezoneOffsets == {-300, 0, 60}

openEditModal ==
    /\ Cardinality(expenses.selectedIds) = 1
    /\ IF \E k \in 1..Len(expenses.rows) : expenses.rows[k].id \in expenses.selectedIds
       THEN /\ LET target == CHOOSE row \in {expenses.rows[k] : k \in 1..Len(expenses.rows)} :
                                row.id \in expenses.selectedIds
               IN  expenses' = [expenses EXCEPT !.editing = TRUE,
                                                !.editDate = ParseDate(target.date)]
            /\ UNCHANGED uiCall
       ELSE /\ uiCall' = UiCall("openEditModal", "Selected transaction not found.",
                                FALSE, TRUE)
            /\ UNCHANGED expenses
    /\ UNCHANGED <<form, txVars, budgetVars, busVars, loadVars, budgetScreen>>

\* the Cancel button of the edit modal
cancelEdit ==
    /\ expenses.editing
    /\ expenses' = [expenses EXCEPT !.editing = FALSE]
    /\ UNCHANGED <<form, uiCall, txVars, budgetVars, busVars, loadVars, budgetScreen>>

handleEditSave(editAmount, editCategory, editLabel, editDate) ==
    LET ids == expenses.selectedIds
        parsedAmount == Number(replaceComma(editAmount))
        trimmedLabel == trim(editLabel)
        Reject(message) ==
            /\ uiCall' = UiCall("handleEditSave", message, FALSE, TRUE)
            /\ UNCHANGED <<expenses, txVars>>
    IN
    /\ expenses.editing
    /\ IF Cardinality(ids) # 1
       THEN Reject("Select a single transaction to edit.")
       ELSE IF AmountRejected(parsedAmount)
       THEN Reject("Amount must be a number greater than 0.")
       ELSE IF ~Includes(categories, editCategory)
       THEN Reject("Category must be selected from the list.")
       ELSE IF editDate = InvalidDate
       THEN Reject("Transaction date is required.")
       ELSE LET id == CHOOSE i \in ids : TRUE IN
            /\ UpdateTx(id, parsedAmount.tenths, editCategory,
                        IF trimmedLabel = "" THEN NULL ELSE trimmedLabel,
                        formatDate(editDate))
            /\ expenses' = [expenses EXCEPT !.rows = OrderByIdDesc(transactions'),
                                            !.selectedIds = {}, !.editing = FALSE]
            /\ uiCall' = UiCall("handleEditSave", "Updated", FALSE,
                                \E r \in transactions : r.id = id)
    /\ UNCHANGED <<form, budgetVars, busVars, loadVars, budgetScreen>>

\* Save of the edit modal with the date field as openEditModal set it
saveWithDateUntouched(editAmount, editCategory, editLabel, offset) ==
    /\ expenses.editDate # InvalidDate
    /\ handleEditSave(editAmount, editCategory, editLabel,
                      LocalFields(expenses.editDate, offset))

NextUi ==
    \/ formInitDb
    \/ \E amount \in AmountTexts, category \in UiCategoryInputs, label \in UiLabelInputs,
          date \in UiDateInputs : handleSubmit(amount, category, label, date)
    \/ expensesFocus
    \/ \E id \in 1..MaxTxId : toggleSelection(id)
    \/ handleDeleteStart
    \/ handleDeleteFinish
    \/ openEditModal
    \/ cancelEdit
    \/ \E amount \in AmountTexts, category \in UiCategoryInputs, label \in UiLabelInputs,
          date \in UiDateInputs : handleEditSave(amount, category, label, date)

-----------------------------------------------------------------------------
(* BudgetScreen and ExpensesScreen: the loads that a focus, a month change or a *)
(* handler starts, and their completion in any order.                          *)

Screens == {"budget", "expenses"}
Tabs == Screens \cup {"index"}
NoMonth == <<>>
LoadMonths == {<<2024, 0>>, <<2024, 5>>}

\* the loads in flight at a time
MaxLoads == 2

Load(screen, origin, month) ==
    [screen |-> screen, origin |-> origin, active |-> TRUE, month |-> month,
     abandoned |-> FALSE]

NoLoad == [screen |-> "none", origin |-> "none", active |-> FALSE, month |-> NoMonth,
           abandoned |-> FALSE]

LoadSpace ==
    [screen : Screens, origin : {"focus", "reload"}, active : BOOLEAN,
     month : LoadMonths \cup {NoMonth}, abandoned : BOOLEAN]

MonthOf(screen, month) == IF screen = "budget" THEN month ELSE NoMonth

\* the cleanup of the focus effect of this screen: active = false in its closure
Cleanup(ls, screen) ==
    {IF l.screen = screen /\ l.origin = "focus" THEN [l EXCEPT !.active = FALSE] ELSE l :
       l \in ls}

\* every load of this screen in flight is from now on one the screen has left behind
Abandon(ls, screen) ==
    {IF l.screen = screen THEN [l EXCEPT !.abandoned = TRUE] ELSE l : l \in ls}

\* a tab gains focus: the screen in focus before blurs and its effect cleanup runs;
\* the focus effect of the new screen starts a load
focusTab(tab) ==
    /\ tab # focus
    /\ Cardinality(loads) < MaxLoads
    /\ focus' = tab
    /\ loads' = LET left == Abandon(Cleanup(loads, focus), focus)
                IN  IF tab \in Screens
                    THEN Abandon(left, tab) \cup {Load(tab, "focus", MonthOf(tab, selectedMonth))}
                    ELSE left
    /\ UNCHANGED <<selectedMonth, shown, lastApplied, handlerVars, txVars, budgetVars, busVars, budgetScreen>>

\* setSelectedMonth(month): loadTotals is a new callback, so the focus effect cleans
\* up and runs again
selectMonth(month) ==
    /\ focus = "budget"
    /\ month # selectedMonth
    /\ Cardinality(loads) < MaxLoads
    /\ selectedMonth' = month
    /\ loads' = Abandon(Cleanup(loads, "budget"), "budget")
                   \cup {Load("budget", "focus", month)}
    /\ UNCHANGED <<focus, shown, lastApplied, handlerVars, txVars, budgetVars, busVars, budgetScreen>>

\* loadTotals() called by handleBudgetSave / handleBudgetReset, whose returned cleanup
\* is dropped, or reloadTransactions() called by handleDelete / handleEditSave, which
\* has no flag
reloadAfterWrite(screen) ==
    /\ focus = screen
    /\ Cardinality(loads) < MaxLoads
    /\ loads' = Abandon(loads, screen)
                   \cup {Load(screen, "reload", MonthOf(screen, selectedMonth))}
    /\ UNCHANGED <<focus, selectedMonth, shown, lastApplied, handlerVars, txVars,
                   budgetVars, busVars, budgetScreen>>

\* the .then of a load: if (!active) return; setTotals / setBudgets / setRows
completeLoad(l) ==
    /\ l \in loads
    /\ loads' = loads \ {l}
    /\ IF l.active
       THEN /\ shown' = [shown EXCEPT ![l.screen] = l.month]
            /\ lastApplied' = l
       ELSE UNCHANGED <<shown, lastApplied>>
    /\ UNCHANGED <<focus, selectedMonth, handlerVars, txVars, budgetVars, busVars, budgetScreen>>

NextLoads ==
    \/ \E tab \in Tabs : focusTab(tab)
    \/ \E month \in LoadMonths : selectMonth(month)
    \/ \E screen \in Screens : reloadAfterWrite(screen)
    \/ \E l \in LoadSpace : completeLoad(l)

-----------------------------------------------------------------------------
(* BudgetScreen: loadTotals, from the call to its .then or its .catch *)

CategorySet == {categories[k] : k \in 1..Len(categories)}

ScreenMonths == {<<2023, 11>>, <<2024, 0>>}

formatMonthStart(date) ==
    Digits(date[1]) \o Dash \o padStart2(Digits(date[2] + 1)) \o Dash \o <<48, 49>>

\* the month end taken in the year of the month: December ends at January 1st of
\* its own year
formatMonthEndSameYear(date) ==
    LET nextMonth == IF date[2] = 11 THEN <<date[1], 0>> ELSE <<date[1], date[2] + 1>>
    IN  Digits(nextMonth[1]) \o Dash \o padStart2(Digits(nextMonth[2] + 1)) \o Dash \o <<48, 49>>

\* new Date(year, month + 1, 1): month 12 is January of the next year
formatMonthEnd(date) ==
    LET nextMonth == IF date[2] = 11 THEN <<date[1] + 1, 0>> ELSE <<date[1], date[2] + 1>>
    IN  Digits(nextMonth[1]) \o Dash \o padStart2(Digits(nextMonth[2] + 1)) \o Dash \o <<48, 49>>

\* the data properties every object literal inherits from Object.prototype
ObjectPrototypeNames ==
    {"constructor", "hasOwnProperty", "isPrototypeOf", "propertyIsEnumerable",
     "toLocaleString", "toString", "valueOf"}

\* key in object, for an object literal with the own keys given: own or inherited
HasProperty(ownKeys, key) == key \in ownKeys \/ key \in ObjectPrototypeNames

\* nextTotals: 0 for every category, then nextTotals[row.category] = row.total for
\* every row with row.category in nextTotals
NextTotals(totalRows) ==
    LET assigned == {row \in totalRows : HasProperty(CategorySet, row.category)} IN
    [c \in CategorySet \cup {row.category : row \in assigned} |->
        IF \E row \in assigned : row.category = c
        THEN (CHOOSE row \in assigned : row.category = c).total
        ELSE 0]

loadTotals(selected) ==
    LET monthStart == formatMonthStart(selected)
        monthEnd == formatMonthEnd(selected)
    IN
    /\ budgetScreen.pc = "idle"
    /\ res.pc = "idle"
    /\ budgetScreen' = [budgetScreen EXCEPT !.pc = "loading", !.error = NULL,
                           !.pending = TotalsRows(transactions, monthStart, monthEnd)]
    /\ txCall' = TxCall("getMonthlyCategoryTotals", monthStart, monthEnd,
                        TotalsRows(transactions, monthStart, monthEnd))
    /\ res' = Started(formatMonthKey(selected), categories)
    /\ interfered' = FALSE
    /\ source' = <<>>
    /\ UNCHANGED <<transactions, txSeq, issued, budgets, lastWrite, busVars, handlerVars,
                   loadVars>>

\* .then(([totalRows, budgetResults]) => { setTotals; setBudgets; setExactBudgets })
loadTotalsThen ==
    /\ budgetScreen.pc = "loading"
    /\ res.pc = "done"
    /\ budgetScreen' = [budgetScreen EXCEPT !.pc = "idle", !.pending = {},
                           !.totals = NextTotals(budgetScreen.pending),
                           !.budgets = res.amounts, !.exactBudgets = res.exact,
                           !.applied = res.month]
    /\ res' = Idle
    /\ interfered' = FALSE
    /\ UNCHANGED <<budgets, lastWrite, source, txVars, busVars, handlerVars, loadVars>>

\* .catch((err) => setError(err.message || 'Could not load totals.'))
loadTotalsCatch ==
    /\ budgetScreen.pc = "loading"
    /\ res.pc = "failed"
    /\ budgetScreen' = [budgetScreen EXCEPT !.pc = "idle", !.pending = {},
                           !.error = "Could not load totals."]
    /\ res' = Idle
    /\ interfered' = FALSE
    /\ UNCHANGED <<budgets, lastWrite, source, txVars, busVars, handlerVars, loadVars>>

\* the screen loading while budgets are saved and transactions are added between loads
NextBudgetScreen ==
    \/ \E selected \in ScreenMonths : loadTotals(selected)
    \/ ResolveExact
    \/ ResolveFallback
    \/ ResolveThrow
    \/ loadTotalsThen
    \/ loadTotalsCatch
    \/ \E month \in RaceMonthKeys, category \in CategoryInputs :
          budgetScreen.pc = "idle" /\ upsertBudget(month, category, 50)
    \/ budgetScreen.pc = "idle"
          /\ insertTransaction(5, "fun", NULL, formatDate(<<2024, 0, 15>>))

\* February of a common year and of a leap year, April, January and December
CalendarMonths == {<<2023, 1>>, <<2024, 1>>, <<2024, 3>>, <<2024, 0>>, <<2023, 11>>}

\* <<amount, category, label, date>>: around the turn of the year, two in categories
\* the screen does not list
TotalsSamples ==
    { <<5, "fun", NULL, <<2023, 11, 31>>>>,
      <<7, "rent", NULL, <<2023, 11, 1>>>>,
      <<7, "toString", NULL, <<2023, 11, 1>>>>,
      <<7, "fun", NULL, <<2024, 0, 1>>>> }

\* the screen loading any month, with transactions added between loads
NextBudgetTotals ==
    \/ \E selected \in CalendarMonths : loadTotals(selected)
    \/ ResolveExact
    \/ ResolveFallback
    \/ loadTotalsThen
    \/ \E v \in TotalsSamples :
          budgetScreen.pc = "idle" /\ insertTransaction(v[1], v[2], v[3], formatDate(v[4]))

-----------------------------------------------------------------------------
(* BudgetScreen: the budget editor, the reset button and the month picker.
   budgetScreen.applied is the month key of the resolution last applied;
   budgetScreen.queued is the month of a loadTotals() call made while a load was in
   flight, whose queries run once that load has settled. Amounts are in tenths. *)

\* the texts typed in the editor: "", "abc", "5", "-5", "Infinity"
BudgetTexts == {<<>>, <<97, 98, 99>>, <<53>>, <<45, 53>>, InfinityText}

EditCategories == {"fun"}

\* a check of the field that only asks for a finite number
NotFiniteRejected(parsedAmount) == ~isFinite(parsedAmount)

\* !Number.isFinite(parsedAmount) || parsedAmount < 0
BudgetAmountRejected(parsedAmount) == ~isFinite(parsedAmount) \/ parsedAmount.tenths < 0

\* disabled={!exactBudgets[category]}; the editor modal covers the list
ResetEnabled(category) ==
    budgetScreen.editingCategory = NULL /\ budgetScreen.exactBudgets[category]

\* setEditingCategory(category); setBudgetError(null)
openBudgetEditor(category) ==
    /\ budgetScreen.editingCategory = NULL
    /\ budgetScreen' = [budgetScreen EXCEPT !.editingCategory = category,
                                            !.budgetError = NULL]
    /\ UNCHANGED <<txVars, budgetVars, busVars, handlerVars, loadVars>>

\* setEditingCategory(null); setBudgetError(null)
closeBudgetEditor ==
    /\ budgetScreen.editingCategory # NULL
    /\ budgetScreen' = [budgetScreen EXCEPT !.editingCategory = NULL, !.budgetError = NULL]
    /\ UNCHANGED <<txVars, budgetVars, busVars, handlerVars, loadVars>>

\* loadTotals() called by a handler: it starts at once, or after the load in flight
ReloadAfter(screen) ==
    LET monthStart == formatMonthStart(selectedMonth)
        monthEnd == formatMonthEnd(selectedMonth)
    IN
    IF budgetScreen.pc = "idle"
    THEN /\ budgetScreen' = [screen EXCEPT !.pc = "loading", !.error = NULL,
                                !.queued = NoMonth,
                                !.pending = TotalsRows(transactions, monthStart, monthEnd)]
         /\ txCall' = TxCall("getMonthlyCategoryTotals", monthStart, monthEnd,
                             TotalsRows(transactions, monthStart, monthEnd))
         /\ res' = Started(formatMonthKey(selectedMonth), categories)
         /\ interfered' = FALSE
         /\ source' = <<>>
    ELSE /\ budgetScreen' = [screen EXCEPT !.queued = selectedMonth]
         /\ interfered' = TRUE
         /\ UNCHANGED <<txCall, res, source>>

\* the handler of the Save button of the editor
handleBudgetSave(editingAmount) ==
    LET parsedAmount == Number(replaceComma(editingAmount))
        editingCategory == budgetScreen.editingCategory
        monthKey == formatMonthKey(selectedMonth)
    IN
    /\ editingCategory # NULL
    /\ IF BudgetAmountRejected(parsedAmount)
       THEN /\ budgetScreen' = [budgetScreen EXCEPT
                                   !.budgetError = "Enter a valid amount (0 or more)."]
            /\ UNCHANGED <<budgets, lastWrite, res, interfered, source, txCall>>
       ELSE /\ budgets' = UpsertRows(budgets, monthKey, editingCategory, parsedAmount.tenths)
            /\ lastWrite' = [op |-> "upsertBudget", month |-> monthKey,
                             category |-> editingCategory, amount |-> parsedAmount.tenths,
                             before |-> {r.amount : r \in RowsAt(budgets, monthKey,
                                                                 editingCategory)}]
            /\ ReloadAfter([budgetScreen EXCEPT !.editingCategory = NULL,
                                                !.budgetError = NULL])
    /\ UNCHANGED <<transactions, txSeq, issued, busVars, handlerVars, loadVars>>

\* the handler of the reset button of a category
handleBudgetReset(category) ==
    LET monthKey == formatMonthKey(selectedMonth) IN
    /\ budgets' = DeleteRows(budgets, monthKey, category)
    /\ lastWrite' = [op |-> "deleteBudgetForMonth", month |-> monthKey,
                     category |-> category, amount |-> 0,
                     before |-> {r.amount : r \in RowsAt(budgets, monthKey, category)}]
    /\ ReloadAfter(budgetScreen)
    /\ UNCHANGED <<transactions, txSeq, issued, busVars, handlerVars, loadVars>>

\* onPress of the reset button, which is disabled unless exactBudgets[category]
pressReset(category) == ResetEnabled(category) /\ handleBudgetReset(category)

\* the load a handler called for while another was in flight
loadTotalsQueued ==
    LET monthStart == formatMonthStart(budgetScreen.queued)
        monthEnd == formatMonthEnd(budgetScreen.queued)
    IN
    /\ budgetScreen.pc = "idle"
    /\ res.pc = "idle"
    /\ budgetScreen.queued # NoMonth
    /\ budgetScreen' = [budgetScreen EXCEPT !.pc = "loading", !.error = NULL,
                           !.queued = NoMonth,
                           !.pending = TotalsRows(transactions, monthStart, monthEnd)]
    /\ txCall' = TxCall("getMonthlyCategoryTotals", monthStart, monthEnd,
                        TotalsRows(transactions, monthStart, monthEnd))
    /\ res' = Started(formatMonthKey(budgetScreen.queued), categories)
    /\ interfered' = FALSE
    /\ source' = <<>>
    /\ UNCHANGED <<transactions, txSeq, issued, budgets, lastWrite, busVars, handlerVars,
                   loadVars>>

\* the month picker, used while no load is in flight: setSelectedMonth(month), and
\* the focus effect runs again with the new loadTotals
setSelectedMonth(month) ==
    LET monthStart == formatMonthStart(month)
        monthEnd == formatMonthEnd(month)
    IN
    /\ month # selectedMonth
    /\ budgetScreen.editingCategory = NULL
    /\ budgetScreen.pc = "idle"
    /\ res.pc = "idle"
    /\ budgetScreen.queued = NoMonth
    /\ selectedMonth' = month
    /\ budgetScreen' = [budgetScreen EXCEPT !.pc = "loading", !.error = NULL,
                           !.pending = TotalsRows(transactions, monthStart, monthEnd)]
    /\ txCall' = TxCall("getMonthlyCategoryTotals", monthStart, monthEnd,
                        TotalsRows(transactions, monthStart, monthEnd))
    /\ res' = Started(formatMonthKey(month), categories)
    /\ interfered' = FALSE
    /\ source' = <<>>
    /\ UNCHANGED <<transactions, txSeq, issued, budgets, lastWrite, busVars, handlerVars,
                   focus, loads, shown, lastApplied>>

\* the screen in use: budgets edited and reset, months picked, loads running
NextBudgetEdit ==
    \/ \E category \in EditCategories : openBudgetEditor(category)
    \/ closeBudgetEditor
    \/ \E editingAmount \in BudgetTexts : handleBudgetSave(editingAmount)
    \/ \E category \in EditCategories : pressReset(category)
    \/ \E month \in LoadMonths : setSelectedMonth(month)
    \/ loadTotalsQueued
    \/ ResolveExact
    \/ ResolveFallback
    \/ loadTotalsThen

-----------------------------------------------------------------------------
(* ExpensesScreen: the edit modal opened and saved with its date untouched *)

\* stored dates at the start of a year, after a leap day, and in mid-month
EditDates == {<<2024, 0, 1>>, <<2024, 2, 1>>, <<2024, 0, 15>>}

\* only transactions that still hold one of the dates above are edited; the open
\* modal covers the list, so the selection stays while it is open
NextEditDate ==
    \/ \E date \in EditDates : insertTransaction(5, "fun", NULL, formatDate(date))
    \/ expensesFocus
    \/ \E id \in 1..MaxTxId : ~expenses.editing /\ toggleSelection(id)
    \/ openEditModal
    \/ cancelEdit
    \/ \E offset \in TimezoneOffsets :
          /\ expenses.editDate \in EditDates
          /\ saveWithDateUntouched(<<53>>, "fun", " lunch ", offset)

-----------------------------------------------------------------------------
(* initDb, and every call of db.ts side by side *)

\* DROP TABLE IF EXISTS budgets before the CREATE TABLE
DropAndCreate(b) == EmptyBag

\* CREATE TABLE IF NOT EXISTS budgets (...): the table that exists keeps its rows
CreateIfNotExists(b) == b

initDb ==
    /\ budgets' = CreateIfNotExists(budgets)
    /\ txCall' = TxCall("initDb", <<>>, <<>>, {})
    /\ UNCHANGED <<transactions, txSeq, issued, lastWrite, res, interfered, source,
                   busVars, uiVars>>

FrameSamples == {<<5, "fun", NULL, <<2024, 0, 1>>>>, <<7, "groceries", NULL, <<2024, 0, 15>>>>}

\* reads, transaction writes and repeated initDb between budget writes, with a
\* resolution in progress or not
NextFrame ==
    \/ initDb
    \/ \E v \in FrameSamples : insertTransaction(v[1], v[2], v[3], formatDate(v[4]))
    \/ \E id \in 1..MaxTxId, v \in FrameSamples :
          updateTransaction(id, v[1], v[2], v[3], formatDate(v[4]))
    \/ \E ids \in SUBSET (1..MaxTxId) : deleteTransactions(ids)
    \/ getMonthlyCategoryTotals(formatDate(<<2024, 0, 1>>), formatDate(<<2024, 1, 1>>))
    \/ getTransactions
    \/ \E month \in RaceMonthKeys : upsertBudget(month, "fun", 50)
    \/ \E month \in RaceMonthKeys : deleteBudgetForMonth(month, "fun")
    \/ \E month \in RaceMonthKeys : ResolveCall(month, <<"fun">>)
    \/ ResolveExact
    \/ ResolveFallback
    \/ ResolveReturn

-----------------------------------------------------------------------------
Init ==
    /\ transactions = {}
    /\ txSeq = 0
    /\ txCall = TxCall("none", <<>>, <<>>, {})
    /\ issued = {}
    /\ budgets = EmptyBag
    /\ lastWrite = NoWrite
    /\ res = Idle
    /\ interfered = FALSE
    /\ source = <<>>
    /\ entries = <<>>
    /\ emit = [pc |-> "idle", index |-> 0]
    /\ calls = NoCalls
    /\ atStart = {}
    /\ addedInPass = {}
    /\ touched = {}
    /\ gone = {}
    /\ form = [dbReady |-> FALSE]
    /\ expenses = [rows |-> <<>>, selectedIds |-> {}, editing |-> FALSE, deleting |-> {},
                   editDate |-> InvalidDate]
    /\ uiCall = UiCall("none", "none", FALSE, TRUE)
    /\ focus = "index"
    /\ selectedMonth = <<2024, 0>>
    /\ loads = {}
    /\ shown = [s \in Screens |-> NoMonth]
    /\ lastApplied = NoLoad
    /\ budgetScreen = [pc |-> "idle", pending |-> {}, error |-> NULL,
                       totals |-> [c \in CategorySet |-> 0],
                       budgets |-> [c \in CategorySet |-> 0],
                       exactBudgets |-> [c \in CategorySet |-> FALSE],
                       applied |-> <<>>, queued |-> NoMonth,
                       editingCategory |-> NULL, budgetError |-> NULL]

Next == NextTx \/ NextTxIds \/ NextBudgetRace \/ NextBus \/ NextUi \/ NextLoads \/ NextBudgetScreen
           \/ NextBudgetEdit \/ NextFrame \/ NextBudgetTotals \/ NextEditDate

Spec == Init /\ [][Next]_vars

SpecBus == Init /\ [][NextBus]_vars

SpecTx == Init /\ [][NextTx]_vars

SpecTxIds == Init /\ [][NextTxIds]_vars

SpecUi == Init /\ [][NextUi]_vars

SpecLoads == Init /\ [][NextLoads]_vars

SpecBudgetScreen == Init /\ [][NextBudgetScreen]_vars

SpecBudget == Init /\ [][NextBudget]_vars

SpecBudgetEdit == Init /\ [][NextBudgetEdit]_vars

SpecFrame == Init /\ [][NextFrame]_vars

SpecEditDate == Init /\ [][NextEditDate]_vars

SpecBudgetTotals == Init /\ [][NextBudgetTotals]_vars

SpecBudgetRace == Init /\ [][NextBudgetRace]_vars

-----------------------------------------------------------------------------
(* Vocabulary of the properties.  Months are compared as calendar months   *)
(* <<year, monthIndex>>, not as text.                                      *)

Earlier(m1, m2) == m1[1] < m2[1] \/ (m1[1] = m2[1] /\ m1[2] < m2[2])

AmountsAt(M, c) == {r.amount : r \in RowsAt(budgets, formatMonthKey(M), c)}

\* a resolution of month M that covers category c has returned, and no budgets
\* write ran since it was called
Resolved(M, c) ==
    /\ res.pc = "done"
    /\ ~interfered
    /\ res.month = formatMonthKey(M)
    /\ \E k \in 1..Len(res.categories) : res.categories[k] = c

Dec23 == <<2023, 11>>
Jan24 == <<2024, 0>>
Jun24 == <<2024, 5>>

\* calendar order on Date fields <<year, monthIndex, day>>
Before(d1, d2) ==
    \/ d1[1] < d2[1]
    \/ d1[1] = d2[1] /\ d1[2] < d2[2]
    \/ d1[1] = d2[1] /\ d1[2] = d2[2] /\ d1[3] < d2[3]

\* the amount the transaction of this id adds to category c over [S, E)
Counted(id, c, S, E) ==
    LET hit == {r \in transactions :
                  /\ r.id = id
                  /\ r.category = c
                  /\ \E d \in DateInputs :
                        r.date = formatDate(d) /\ (d = S \/ Before(S, d)) /\ Before(d, E)}
    IN  IF hit = {} THEN 0 ELSE (CHOOSE r \in hit : TRUE).amount

RECURSIVE SumCounted(_, _, _, _)
SumCounted(n, c, S, E) ==
    IF n = 0 THEN 0 ELSE Counted(n, c, S, E) + SumCounted(n - 1, c, S, E)

-----------------------------------------------------------------------------
\* C1: getMonthlyCategoryTotals(monthStart, monthEnd) returns, per category, the sum
\* of the amounts of the transactions dated d with monthStart <= d < monthEnd (one
\* row per category that has such a transaction, none for the other categories).
C1_TotalsHalfOpen ==
    \A S \in DateInputs, E \in DateInputs :
        ( /\ txCall.op = "getMonthlyCategoryTotals"
          /\ txCall.monthStart = formatDate(S)
          /\ txCall.monthEnd = formatDate(E) )
        => \A c \in CategoryInputs :
              {row.total : row \in {x \in txCall.rows : x.category = c}} =
                 IF \E id \in 1..txSeq : Counted(id, c, S, E) > 0
                 THEN {SumCounted(txSeq, c, S, E)}
                 ELSE {}

\* January 2024 queried with one transaction dated exactly monthStart (counted) and
\* one dated exactly monthEnd (not counted) in the same category
C1_Witness ==
    \E c \in CategoryInputs :
        /\ txCall = TxCall("getMonthlyCategoryTotals", formatDate(<<2024, 0, 1>>),
                           formatDate(<<2024, 1, 1>>), {[category |-> c, total |-> 5]})
        /\ \E r \in transactions : r.category = c /\ r.amount = 5
                                   /\ r.date = formatDate(<<2024, 0, 1>>)
        /\ \E r \in transactions : r.category = c /\ r.amount = 7
                                   /\ r.date = formatDate(<<2024, 1, 1>>)

-----------------------------------------------------------------------------
\* C2: with no row at (M, c) and some row of c at an earlier month, the resolution
\* returns exact = false and the amount of the row of c at the latest month before M.
C2_CarriedForward ==
    \A M \in MonthInputs, c \in CategoryInputs :
        ( /\ Resolved(M, c)
          /\ AmountsAt(M, c) = {}
          /\ \E m0 \in MonthInputs : Earlier(m0, M) /\ AmountsAt(m0, c) # {} )
        => /\ res.exact[c] = FALSE
           /\ \E m0 \in MonthInputs :
                 /\ Earlier(m0, M)
                 /\ AmountsAt(m0, c) = {res.amounts[c]}
                 /\ \A m1 \in MonthInputs :
                       Earlier(m0, m1) /\ Earlier(m1, M) => AmountsAt(m1, c) = {}

C2_Witness ==
    \E c \in CategoryInputs :
        /\ Resolved(Jun24, c)
        /\ AmountsAt(Dec23, c) = {0}
        /\ AmountsAt(Jan24, c) = {50}
        /\ AmountsAt(Jun24, c) = {}
        /\ res.amounts[c] = 50
        /\ res.exact[c] = FALSE

\* C3: with a row at (M, c), the resolution returns exact = true and that row's
\* amount, whatever rows exist at other months.
C3_ExactMonth ==
    \A M \in MonthInputs, c \in CategoryInputs :
        Resolved(M, c) /\ AmountsAt(M, c) # {}
        => res.exact[c] = TRUE /\ AmountsAt(M, c) = {res.amounts[c]}

C3_Witness ==
    \E c \in CategoryInputs :
        /\ Resolved(Jan24, c)
        /\ AmountsAt(Dec23, c) = {50}
        /\ AmountsAt(Jan24, c) = {0}
        /\ AmountsAt(Jun24, c) = {50}
        /\ res.amounts[c] = 0
        /\ res.exact[c] = TRUE

\* C4: with no row of c at M or at any earlier month, the resolution returns
\* amount = 0 and exact = false, also when rows of c exist at later months.
C4_NoHistory ==
    \A M \in MonthInputs, c \in CategoryInputs :
        ( /\ Resolved(M, c)
          /\ \A m0 \in MonthInputs : (m0 = M \/ Earlier(m0, M)) => AmountsAt(m0, c) = {} )
        => res.amounts[c] = 0 /\ res.exact[c] = FALSE

C4_Witness ==
    \E c \in CategoryInputs :
        /\ Resolved(Dec23, c)
        /\ AmountsAt(Dec23, c) = {}
        /\ AmountsAt(Jan24, c) = {50}
        /\ AmountsAt(Jun24, c) = {50}
        /\ res.amounts[c] = 0
        /\ res.exact[c] = FALSE

\* C5: table budgets never holds two rows with the same (month, category).
C5_UniqueKey ==
    \A r \in BagToSet(budgets) :
        /\ CopiesIn(r, budgets) = 1
        /\ \A s \in BagToSet(budgets) :
              s.month = r.month /\ s.category = r.category => s = r

\* an upsert has run on a key that already held a row with another amount
C5_Witness ==
    /\ lastWrite.op = "upsertBudget"
    /\ lastWrite.before = {50}
    /\ lastWrite.amount = 0
    /\ BagCardinality(budgets) >= 2

\* C6: upsertBudget(M, c, x) run right after upsertBudget(M, c, x) leaves table
\* budgets as it was, with exactly one row for (M, c), of amount x.
C6_Idempotent ==
    [][ \A month \in MonthKeys, category \in CategoryInputs, amount \in BudgetAmounts :
           ( /\ lastWrite.op = "upsertBudget"
             /\ lastWrite.month = month
             /\ lastWrite.category = category
             /\ lastWrite.amount = amount
             /\ upsertBudget(month, category, amount) )
           => /\ budgets' = budgets
              /\ RowsAt(budgets', month, category) = {BudgetRow(month, category, amount)}
              /\ CopiesIn(BudgetRow(month, category, amount), budgets') = 1 ]_vars

\* the second of two equal upserts has run: the key held the amount already
C6_Witness ==
    /\ lastWrite.op = "upsertBudget"
    /\ lastWrite.before = {lastWrite.amount}
    /\ RowsAt(budgets, lastWrite.month, lastWrite.category)
          = {BudgetRow(lastWrite.month, lastWrite.category, lastWrite.amount)}
    /\ BagCardinality(budgets) >= 2

\* C7: a resolution of (M, c) that follows upsertBudget(M, c, x), with no write in
\* between, returns amount = x and exact = true.
C7_LastWriteWins ==
    \A M \in MonthInputs, c \in CategoryInputs :
        ( /\ Resolved(M, c)
          /\ lastWrite.op = "upsertBudget"
          /\ lastWrite.month = formatMonthKey(M)
          /\ lastWrite.category = c )
        => res.amounts[c] = lastWrite.amount /\ res.exact[c] = TRUE

C7_Witness ==
    \E M \in MonthInputs, c \in CategoryInputs :
        /\ Resolved(M, c)
        /\ lastWrite = [op |-> "upsertBudget", month |-> formatMonthKey(M), category |-> c,
                        amount |-> 50, before |-> {0}]
        /\ res.amounts[c] = 50
        /\ res.exact[c] = TRUE

\* C8: deleteBudgetForMonth(M, c) removes the rows keyed (M, c) and no other row;
\* a resolution of (M, c) that follows it returns exact = false and the amount of
\* the row of c at the latest month before M, or 0 when there is none.
C8_ResetFrame ==
    \A month \in MonthKeys, category \in CategoryInputs :
        deleteBudgetForMonth(month, category)
        => \A r \in BagToSet(budgets) \cup BagToSet(budgets') :
              CopiesIn(r, budgets') =
                 IF r.month = month /\ r.category = category THEN 0 ELSE CopiesIn(r, budgets)

C8_ResetResolution ==
    \A M \in MonthInputs, c \in CategoryInputs :
        ( /\ Resolved(M, c)
          /\ lastWrite.op = "deleteBudgetForMonth"
          /\ lastWrite.month = formatMonthKey(M)
          /\ lastWrite.category = c )
        => /\ res.exact[c] = FALSE
           /\ \/ /\ res.amounts[c] = 0
                 /\ \A m0 \in MonthInputs : Earlier(m0, M) => AmountsAt(m0, c) = {}
              \/ \E m0 \in MonthInputs :
                    /\ Earlier(m0, M)
                    /\ AmountsAt(m0, c) = {res.amounts[c]}
                    /\ \A m1 \in MonthInputs :
                          Earlier(m0, m1) /\ Earlier(m1, M) => AmountsAt(m1, c) = {}

\* C8: every deleteBudgetForMonth step satisfies the frame condition above, and every
\* resolution that follows a reset falls back as stated above.
C8_Reset == [][C8_ResetFrame]_vars /\ []C8_ResetResolution

\* the reset of a present row has run and the resolution fell back to January
C8_Witness ==
    \E c \in CategoryInputs :
        /\ Resolved(Jun24, c)
        /\ lastWrite = [op |-> "deleteBudgetForMonth", month |-> formatMonthKey(Jun24),
                        category |-> c, amount |-> 0, before |-> {0}]
        /\ AmountsAt(Jan24, c) = {50}
        /\ BagCardinality(budgets) >= 2
        /\ res.amounts[c] = 50
        /\ res.exact[c] = FALSE

\* C9: when an emit pass returns, it has invoked every listener that was subscribed
\* when it started exactly once.
C9_EachOnce ==
    emit.pc = "returned" => \A l \in atStart : calls[l] = 1

\* C10: a listener that a callback subscribes during an emit pass, and that was not
\* subscribed when the pass started, is not invoked in that pass.
C10_AddedNotInvoked ==
    \A l \in addedInPass \ atStart : calls[l] = 0

\* C11: a listener's own unsubscribe from inside its callback does not change the
\* delivery to the others: in every emit pass, each listener subscribed at the start
\* that no callback subscribes and no other listener's callback unsubscribes is
\* invoked exactly once, whichever listeners unsubscribe themselves meanwhile; and no
\* emit invokes a listener that unsubscribed itself in its callback and was not
\* subscribed again.
C11_OthersOnce ==
    emit.pc \in {"running", "returned"}
    => \A l \in atStart \ touched : /\ calls[l] <= 1
                                    /\ emit.pc = "returned" => calls[l] = 1

C11_GoneNotInvoked ==
    \A l \in Listeners : calls'[l] = calls[l] + 1 => l \notin gone

C11_SelfUnsubscribe == []C11_OthersOnce /\ [][C11_GoneNotInvoked]_vars

\* the first of three listeners unsubscribed itself in its callback; the pass went on
\* to invoke the two others once each
C11_Witness ==
    /\ emit.pc = "returned"
    /\ touched = {}
    /\ atStart = Listeners
    /\ gone # {}
    /\ gone \cap Members(entries) = {}
    /\ Cardinality(Members(entries)) = 2
    /\ \A l \in Listeners : calls[l] = 1

-----------------------------------------------------------------------------
\* the transaction r is dated d with S <= d < E, by the calendar
InRange(r, S, E) ==
    \E d \in DateInputs : r.date = formatDate(d) /\ (d = S \/ Before(S, d)) /\ Before(d, E)

TotalOf(rows, c) ==
    IF \E x \in rows : x.category = c THEN (CHOOSE x \in rows : x.category = c).total ELSE 0

\* C12: a deleteTransactions(ids) removes exactly the stored transactions whose id is
\* in ids (ids that match no row are ignored, an empty ids removes nothing), leaves
\* every other transaction and every budget row unchanged, and the totals that
\* getMonthlyCategoryTotals computes afterwards are the totals before less the amounts
\* of the removed transactions, with no row for a category left without a transaction
\* in the range.
C12_DeleteStep ==
    txCall'.op = "deleteTransactions" =>
        LET ids == txCall'.ids IN
        /\ \A r \in transactions : r \in transactions' <=> r.id \notin ids
        /\ transactions' \subseteq transactions
        /\ budgets' = budgets
        /\ \A S \in DateInputs, E \in DateInputs, c \in CategoryInputs :
              Before(S, E) =>
                 LET after == TotalsRows(transactions', formatDate(S), formatDate(E))
                     before == TotalsRows(transactions, formatDate(S), formatDate(E))
                     removed == {r \in transactions :
                                   r.id \in ids /\ r.category = c /\ InRange(r, S, E)}
                 IN  /\ TotalOf(after, c) = TotalOf(before, c) - SumAmount(removed)
                     /\ (\E x \in after : x.category = c)
                           <=> \E r \in transactions :
                                  r.id \notin ids /\ r.category = c /\ InRange(r, S, E)

C12_DeleteExactly == [][C12_DeleteStep]_vars

\* a delete addressed to id 1 and to an id that matches no row removed transaction 1
\* and left transaction 2 stored
C12_Witness ==
    /\ txCall.op = "deleteTransactions"
    /\ txCall.ids = {1, 3}
    /\ issued = {1, 2}
    /\ {r.id : r \in transactions} = {2}

-----------------------------------------------------------------------------
\* C19: stored transactions have pairwise distinct ids; an insert adds one row whose
\* id is greater than every id given before (so the id of a deleted row is not given
\* again) and changes no other row; an update sets amount, category, label and date
\* of the addressed row to the values passed and changes no id and no other row; a
\* delete changes no id of a remaining row.
C19_Distinct ==
    \A r1 \in transactions, r2 \in transactions : r1.id = r2.id => r1 = r2

C19_Step ==
    /\ txCall'.op = "insertTransaction" =>
          \E r \in transactions' \ transactions :
              /\ transactions' = transactions \cup {r}
              /\ \A i \in issued : r.id > i
              /\ r = [txCall'.args EXCEPT !.id = r.id]
    /\ txCall'.op = "updateTransaction" =>
          LET a == txCall'.args IN
          /\ {r.id : r \in transactions'} = {r.id : r \in transactions}
          /\ \A r \in transactions :
                IF r.id = a.id THEN a \in transactions' ELSE r \in transactions'
    /\ txCall'.op = "deleteTransactions" => transactions' \subseteq transactions

C19_Ids == []C19_Distinct /\ [][C19_Step]_vars

\* transaction 1 was deleted before the latest insert, which was given id 2
C19_Witness ==
    /\ txCall.op = "insertTransaction"
    /\ txCall.ids = {2}
    /\ issued = {1, 2}
    /\ {r.id : r \in transactions} = {2}

-----------------------------------------------------------------------------
\* C20: getTransactions returns every stored transaction exactly once, in strictly
\* decreasing order of id, whatever the dates.
C20_ListByIdDesc ==
    txCall.op = "getTransactions" =>
        LET list == txCall.list IN
        /\ {list[k] : k \in 1..Len(list)} = transactions
        /\ Len(list) = Cardinality(transactions)
        /\ \A j \in 1..Len(list), k \in 1..Len(list) : j < k => list[j].id > list[k].id

\* the list holds the later-created transaction first although its date is the earlier
C20_Witness ==
    /\ txCall.op = "getTransactions"
    /\ Len(txCall.list) = 2
    /\ StrLess(txCall.list[1].date, txCall.list[2].date)

-----------------------------------------------------------------------------
\* the amount texts that denote a finite number greater than 0: "5" and "0,5"
PositiveAmountTexts == {<<53>>, <<48, 44, 53>>}

\* the categories offered by the form and the edit modal
AllowList == {"fun", "groceries", "boucherie"}

InvalidInput(amount, category, date) ==
    amount \notin PositiveAmountTexts \/ category \notin AllowList \/ date = InvalidDate

\* C16: a submit or an edit whose amount is not a finite number greater than 0, whose
\* category is not in the allow-list or whose date is invalid makes no storage call
\* and leaves the stored transactions as they were; and every stored transaction has
\* an amount greater than 0 and a category of the allow-list.
C16_RejectedStep ==
    LET untouched == /\ transactions' = transactions
                     /\ txCall' = txCall
                     /\ uiCall'.outcome \notin {"Saved.", "Updated"}
    IN  untouched \/
        \A amount \in AmountTexts, category \in UiCategoryInputs, label \in UiLabelInputs,
           date \in UiDateInputs :
            ( /\ InvalidInput(amount, category, date)
              /\ \/ handleSubmit(amount, category, label, date)
                 \/ handleEditSave(amount, category, label, date) )
            => untouched

C16_StoredValid ==
    \A r \in transactions : r.amount > 0 /\ r.category \in AllowList

C16_Validation == [][C16_RejectedStep]_vars /\ []C16_StoredValid

\* a submit was rejected for its category while a transaction saved earlier is stored
C16_Witness ==
    /\ uiCall.handler = "handleSubmit"
    /\ uiCall.outcome = "Category must be selected from the list."
    /\ txCall.op = "insertTransaction"
    /\ Cardinality(transactions) = 1

-----------------------------------------------------------------------------
\* C15: every handler that wrote transactions (the submit of the form, the save of
\* the edit modal, the delete of the list) has published on the bus.
C15_WritePublishes ==
    uiCall.outcome \in {"Saved.", "Updated", "Deleted"} => uiCall.emitted

-----------------------------------------------------------------------------
\* C17: an edit saved for an id that storage no longer holds tells the caller so: it
\* does not show the message of a successful update.
C17_NotFoundSurfaced ==
    (uiCall.handler = "handleEditSave" /\ ~uiCall.found) => uiCall.outcome # "Updated"

\* such an update creates no row and changes none
C17_NoRowTouched ==
    \A id \in 1..MaxTxId, amount \in AmountTexts, category \in UiCategoryInputs,
       label \in UiLabelInputs, date \in UiDateInputs :
        ( /\ handleEditSave(amount, category, label, date)
          /\ uiCall'.outcome = "Updated"
          /\ ~uiCall'.found )
        => transactions' = transactions

-----------------------------------------------------------------------------
\* C13: the result of a load is never applied to a screen that has blurred, or has
\* started a newer load, since the load began.
C13_NoStaleApplied == ~lastApplied.abandoned

-----------------------------------------------------------------------------
\* C14: in every result of getMonthlyBudgetsWithFallbackStatus(M, categories),
\* exact[c] is true if and only if amounts[c] was read from the row keyed (M, c),
\* also when upsertBudget or deleteBudgetForMonth runs between the two lookups.
C14_ExactIffExactRow ==
    res.pc = "done" =>
        \A k \in 1..Len(res.categories) :
            LET c == res.categories[k] IN
            res.exact[c] <=> (source[c] # NoRow /\ source[c].month = res.month)

-----------------------------------------------------------------------------
\* C18: when a lookup of getMonthlyBudgetsWithFallbackStatus fails, for any category
\* and either query, the call fails and hands no amounts or exact map to its caller;
\* the load of BudgetScreen that made the call then sets neither totals nor budgets
\* nor exactBudgets, and sets an error.
C18_WholeCallFails ==
    (res.pc # "idle" /\ \E c \in DOMAIN source : source[c] = Threw)
    => res.pc = "failed" /\ res.amounts = <<>> /\ res.exact = <<>>

C18_LoadEnds ==
    ( /\ budgetScreen.pc = "loading"
      /\ budgetScreen'.pc = "idle"
      /\ \E c \in DOMAIN source : source[c] = Threw )
    => /\ budgetScreen'.totals = budgetScreen.totals
       /\ budgetScreen'.budgets = budgetScreen.budgets
       /\ budgetScreen'.exactBudgets = budgetScreen.exactBudgets
       /\ budgetScreen'.error # NULL

-----------------------------------------------------------------------------
\* C28: the resolution of (M, c) depends only on the rows of category c at months
\* up to M: a resolution that returned with no write since its call is the one the
\* table then determines, and an upsertBudget or deleteBudgetForMonth on another
\* category, or on category c at a month later than M, leaves the amount and the
\* exact flag determined for (M, c) as they were.
C28_ReturnsResolution ==
    \A M \in MonthInputs, c \in CategoryInputs :
        Resolved(M, c)
        => [amount |-> res.amounts[c], exact |-> res.exact[c]]
              \in ResolutionOf(budgets, formatMonthKey(M), c)

C28_WriteStep ==
    \A M \in MonthKeys, c \in CategoryInputs :
        ( /\ budgets' # budgets
          /\ lastWrite'.op \in {"upsertBudget", "deleteBudgetForMonth"}
          /\ (lastWrite'.category # c \/ StrLess(M, lastWrite'.month)) )
        => ResolutionOf(budgets', M, c) = ResolutionOf(budgets, M, c)

C28_OtherKeysIgnored == []C28_ReturnsResolution /\ [][C28_WriteStep]_vars

\* June got its first row of a category (50) while January holds 0 for it and
\* December 50 for the other one; January then resolved to its own row
C28_Witness ==
    \E c \in CategoryInputs :
        /\ lastWrite.op = "upsertBudget"
        /\ lastWrite.month = formatMonthKey(Jun24)
        /\ lastWrite.category = c
        /\ lastWrite.before = {}
        /\ AmountsAt(Jan24, c) = {0}
        /\ \E d \in CategoryInputs : d # c /\ AmountsAt(Dec23, d) = {50}
        /\ Resolved(Jan24, c)
        /\ res.amounts[c] = 0
        /\ res.exact[c] = TRUE

-----------------------------------------------------------------------------
\* C29: with at most one row per (month, category) and no write during the call, the
\* amounts returned by getMonthlyBudgetsWithFallbackStatus(M, categories) are,
\* category by category, the ones getMonthlyBudgetsWithFallback(M, categories)
\* returns on the same table.
C29_SameAmounts ==
    ( /\ res.pc = "done"
      /\ ~interfered
      /\ C5_UniqueKey )
    => \A k \in 1..Len(res.categories) :
          getMonthlyBudgetsWithFallback(budgets, res.month, res.categories[k])
             = {res.amounts[res.categories[k]]}

\* January resolved for both categories: fun by its own row (0, with 50 in December),
\* groceries by the row carried from December (50)
C29_Witness ==
    /\ Resolved(Jan24, "fun")
    /\ Resolved(Jan24, "groceries")
    /\ AmountsAt(Dec23, "fun") = {50}
    /\ AmountsAt(Jan24, "fun") = {0}
    /\ AmountsAt(Dec23, "groceries") = {50}
    /\ AmountsAt(Jan24, "groceries") = {}
    /\ res.amounts["fun"] = 0
    /\ res.amounts["groceries"] = 50

-----------------------------------------------------------------------------
\* C26: with BudgetScreen in focus and none of its loads in flight, what it displays
\* is the result of a load for the selected month: a load for a month selected
\* before, started by the focus effect or by a reload after a save or reset, does
\* not overwrite the result of the load for the current month.
C26_ShownIsSelected ==
    ( /\ focus = "budget"
      /\ \A l \in loads : l.screen # "budget" )
    => shown["budget"] = selectedMonth

-----------------------------------------------------------------------------
\* the editor texts that are not a finite number of 0 or more: "abc", "-5", "Infinity"
InvalidBudgetTexts == {<<97, 98, 99>>, <<45, 53>>, InfinityText}

\* C21: a budget save whose amount is negative or not finite is rejected and leaves
\* table budgets as it was; and, after any sequence of saves and resets, every
\* stored budget row has a finite amount of 0 or more.
C21_RejectedStep ==
    LET untouched == budgets' = budgets /\ lastWrite' = lastWrite
    IN  untouched \/
        \A editingAmount \in InvalidBudgetTexts :
            handleBudgetSave(editingAmount)
            => untouched /\ budgetScreen'.budgetError # NULL

C21_StoredValid == \A r \in BagToSet(budgets) : r.amount \in Nat

C21_BudgetValidation == [][C21_RejectedStep]_vars /\ []C21_StoredValid

\* a save was rejected in the editor of fun after January was saved at 5 and reset,
\* with the row saved for June still stored
C21_Witness ==
    /\ budgetScreen.editingCategory = "fun"
    /\ budgetScreen.budgetError # NULL
    /\ lastWrite.op = "deleteBudgetForMonth"
    /\ lastWrite.month = formatMonthKey(Jan24)
    /\ lastWrite.before = {50}
    /\ AmountsAt(Jun24, "fun") = {0}

-----------------------------------------------------------------------------
\* C25: the reset button of a category acts only on a category that has its own row
\* at the selected month: a press of the enabled button never calls
\* deleteBudgetForMonth for a category that inherits its budget in that month.
C25_ResetStep ==
    \A category \in EditCategories :
        pressReset(category)
        => RowsAt(budgets, formatMonthKey(selectedMonth), category) # {}

C25_ResetOnlyExact == [][C25_ResetStep]_vars

\* the flags on display are those of a resolution of the selected month
C25_FlagsOfSelectedMonth ==
    \A category \in EditCategories :
        budgetScreen.exactBudgets[category]
        => budgetScreen.applied = formatMonthKey(selectedMonth)

-----------------------------------------------------------------------------
\* C22: table budgets changes only in a step of upsertBudget or deleteBudgetForMonth,
\* and then as that call prescribes: getMonthlyCategoryTotals, the resolution with
\* fallback, getTransactions, repeated initDb and every insert, update and delete of
\* transactions leave every budget row as it was, and a resolution by fallback
\* creates no row for the month it resolved.
C22_BudgetsStep ==
    budgets' # budgets
    => \/ \E month \in RaceMonthKeys : upsertBudget(month, "fun", 50)
       \/ \E month \in RaceMonthKeys : deleteBudgetForMonth(month, "fun")

C22_OnlyWritesChange == [][C22_BudgetsStep]_vars

\* January was resolved for fun by fallback from the row of December, after initDb
\* ran again and with transactions stored: January still has no row
C22_Witness ==
    /\ Resolved(Jan24, "fun")
    /\ res.exact["fun"] = FALSE
    /\ res.amounts["fun"] = 50
    /\ AmountsAt(Dec23, "fun") = {50}
    /\ AmountsAt(Jan24, "fun") = {}
    /\ txCall.op = "initDb"
    /\ transactions # {}

-----------------------------------------------------------------------------
\* every date of 2023 and 2024, with the day before and the day after
CalendarDates ==
    {<<2022, 11, 31>>, <<2025, 0, 1>>} \cup
    UNION {{<<y, m, d>> : d \in 1..DaysIn(y, m)} : y \in {2023, 2024}, m \in 0..11}

\* C23: the bounds computed by BudgetScreen for the selected month delimit exactly
\* that calendar month: a date text d has monthStart <= d < monthEnd if and only if
\* its first seven characters are the month key; for months of 28, 29, 30 and 31
\* days and for December, whose monthEnd is January 1st of the next year.
\* Stated of the bounds a load has just passed to getMonthlyCategoryTotals.
C23_MonthBounds ==
    ( /\ budgetScreen.pc = "loading"
      /\ res.pc = "exact" /\ res.i = 1
      /\ txCall.op = "getMonthlyCategoryTotals" )
    => /\ \A date \in CalendarDates :
             LET d == formatDate(date) IN
             (StrLeq(txCall.monthStart, d) /\ StrLess(d, txCall.monthEnd))
                <=> (SubSeq(d, 1, 7) = res.month)
       /\ res.month = formatMonthKey(Dec23)
             => txCall.monthEnd = formatDate(<<2024, 0, 1>>)

\* December 2023 is loading with a transaction of December 31st and one of January
\* 1st stored: only the first is in the totals
C23_Witness ==
    /\ budgetScreen.pc = "loading"
    /\ res.pc = "exact" /\ res.i = 1
    /\ res.month = formatMonthKey(Dec23)
    /\ txCall.op = "getMonthlyCategoryTotals"
    /\ txCall.rows = {[category |-> "fun", total |-> 5]}
    /\ \E r \in transactions : r.date = formatDate(<<2023, 11, 31>>)
    /\ \E r \in transactions : r.date = formatDate(<<2024, 0, 1>>)

-----------------------------------------------------------------------------
\* C24: the totals map built when a load completes has exactly the keys of the
\* category list: 0 for a category without a returned row, the returned sum for a
\* category with one, and nothing for a returned row of a category not in the list.
C24_ThenStep ==
    ( /\ budgetScreen.pc = "loading"
      /\ budgetScreen'.pc = "idle" )
    => /\ DOMAIN budgetScreen'.totals = CategorySet
       /\ \A c \in CategorySet :
             LET rows == {row \in budgetScreen.pending : row.category = c} IN
             IF rows = {}
             THEN budgetScreen'.totals[c] = 0
             ELSE \A row \in rows : budgetScreen'.totals[c] = row.total

C24_TotalsKeys == [][C24_ThenStep]_vars

-----------------------------------------------------------------------------
\* C27: opening the edit modal on a stored transaction and saving with the date
\* field untouched leaves the stored date as it was, for every date and every zone
\* of the device.
C27_SaveStep ==
    \A offset \in TimezoneOffsets :
        saveWithDateUntouched(<<53>>, "fun", " lunch ", offset)
        => \A r \in transactions :
              r.id \in expenses.selectedIds
              => \E u \in transactions' : u.id = r.id /\ u.date = r.date

C27_DateRoundTrip == [][C27_SaveStep]_vars

====
